---- MODULE Spec2Model ----
(***************************************************************************)
(* Model of src/forest_plot_app.py: a Streamlit script that is re-run from *)
(* top to bottom on every user interaction.  One run reads the uploaded    *)
(* file, validates it (required columns, numeric coercion, dropna), and,   *)
(* when the resulting DataFrame is not empty, builds the Plotly forest     *)
(* plot, shows it and offers the PNG / SVG downloads.                      *)
(*                                                                         *)
(* Floats are modelled as extended numbers (finite integer, +inf, -inf,    *)
(* NaN); the x-axis range is kept in thousandths so that the factors 0.20  *)
(* and 0.20 * 0.1 are exact.  Rounding of binary floating point is not     *)
(* modelled.                                                               *)
(***************************************************************************)
EXTENDS Integers, Sequences, FiniteSets, TLC

VARIABLES uploaded_file,   \* <<>> (None) or <<file>>: the file_uploader widget
          ref_line_value,  \* the number_input widget
          data_df,         \* the DataFrame left by the data loading section
          messages,        \* st.error / st.warning / st.success / st.info emitted by the run
          dropped,         \* the count printed by the dropped-rows warning (0: no warning)
          builder_called,  \* generate_plotly_forest_plot was invoked in the run
          fig,             \* <<>> or <<figure>> returned by the builder
          chart_shown,     \* st.plotly_chart completed
          downloads,       \* download buttons created in the run
          pc               \* "start": widgets set, script not yet run; "done": run finished

vars == <<uploaded_file, ref_line_value, data_df, messages, dropped,
          builder_called, fig, chart_shown, downloads, pc>>

(***************************************************************************)
(* Bounds                                                                  *)
(***************************************************************************)
MaxRows == 2

MaxVal == 1

(***************************************************************************)
(* Floats                                                                  *)
(***************************************************************************)
Fin(n) == [k |-> "fin", n |-> n]

PosInf == [k |-> "inf", n |-> 1]

NegInf == [k |-> "inf", n |-> -1]

NaN == [k |-> "nan", n |-> 0]

IsNaN(x) == x.k = "nan"

IsFinite(x) == x.k = "fin"

\* x < y on floats; every comparison with NaN is false
FLt(x, y) ==
    IF IsNaN(x) \/ IsNaN(y) THEN FALSE
    ELSE IF x.k = "inf" THEN x.n = -1 /\ ~(y.k = "inf" /\ y.n = -1)
    ELSE IF y.k = "inf" THEN y.n = 1
    ELSE x.n < y.n

FNeg(x) == IF x.k = "nan" THEN NaN ELSE [k |-> x.k, n |-> 0 - x.n]

FAdd(x, y) ==
    IF IsNaN(x) \/ IsNaN(y) THEN NaN
    ELSE IF x.k = "inf" /\ y.k = "inf" THEN (IF x.n = y.n THEN x ELSE NaN)
    ELSE IF x.k = "inf" THEN x
    ELSE IF y.k = "inf" THEN y
    ELSE Fin(x.n + y.n)

FSub(x, y) == FAdd(x, FNeg(y))

\* x * c for an integer constant c
FMul(x, c) ==
    IF IsNaN(x) THEN NaN
    ELSE IF x.k = "inf"
         THEN (IF c = 0 THEN NaN ELSE IF c > 0 THEN x ELSE FNeg(x))
    ELSE Fin(x.n * c)

\* x / c for an integer constant c > 0 dividing x exactly
FDiv(x, c) == IF IsFinite(x) THEN Fin(x.n \div c) ELSE x

\* Python's builtin min(a, b) and max(a, b): the first argument unless the
\* second is strictly smaller / larger
PyMin(a, b) == IF FLt(b, a) THEN b ELSE a

PyMax(a, b) == IF FLt(a, b) THEN b ELSE a

(***************************************************************************)
(* Cell texts and pd.to_numeric(errors='coerce')                           *)
(***************************************************************************)
Digits == <<"0", "1", "2", "3", "4", "5", "6", "7", "8", "9">>

IsDigit(c) == \E i \in 1..Len(Digits) : Digits[i] = c

DigitVal(c) == (CHOOSE i \in 1..Len(Digits) : Digits[i] = c) - 1

IsDigits(s) == Len(s) > 0 /\ \A i \in 1..Len(s) : IsDigit(s[i])

RECURSIVE ParseDigits(_)
ParseDigits(s) ==
    IF Len(s) = 0 THEN 0
    ELSE 10 * ParseDigits(SubSeq(s, 1, Len(s) - 1)) + DigitVal(s[Len(s)])

ParseUnsigned(s) ==
    IF IsDigits(s) THEN Fin(ParseDigits(s))
    ELSE IF s = <<"i", "n", "f">> THEN PosInf
    ELSE NaN

\* an empty cell is already NaN after read_csv and stays NaN; text that is
\* not a number is coerced to NaN; "inf" / "-inf" parse to the infinities
ToNumeric(cell) ==
    IF Len(cell) = 0 THEN NaN
    ELSE IF cell[1] = "-" THEN FNeg(ParseUnsigned(Tail(cell)))
    ELSE IF cell[1] = "+" THEN ParseUnsigned(Tail(cell))
    ELSE ParseUnsigned(cell)

\* the text of a non-negative integer below 100, as a file would hold it
FormatNat(n) ==
    IF n < 10 THEN <<Digits[n + 1]>>
    ELSE <<Digits[(n \div 10) + 1], Digits[(n % 10) + 1]>>

FormatInt(n) == IF n < 0 THEN <<"-">> \o FormatNat(0 - n) ELSE FormatNat(n)

(***************************************************************************)
(* Uploaded files and DataFrames                                           *)
(***************************************************************************)
Range(s) == {s[i] : i \in 1..Len(s)}

\* a DataFrame: its column names and its rows in positional order; a row
\* keeps the index label it was read with (dropna does not renumber)
EmptyDataFrame == [columns |-> {}, rows |-> <<>>]

\* DataFrame.empty: any axis of length 0
DfEmpty(df) == df.columns = {} \/ Len(df.rows) = 0

ColumnPos(header, c) == CHOOSE i \in 1..Len(header) : header[i] = c

\* pd.read_csv / pd.read_excel of a well-formed file: the header gives the
\* column names, each line a row, the index is 0, 1, 2, ...
ReadTable(file) ==
    [columns |-> Range(file.header),
     rows    |-> [i \in 1..Len(file.rows) |->
                    [idx |-> i - 1,
                     at  |-> [c \in Range(file.header) |->
                                file.rows[i][ColumnPos(file.header, c)]]]]]

\* lines 133-136: the reader is chosen by the file name's extension; a name
\* matching neither branch leaves the empty DataFrame of line 128
ReadFile(file) ==
    IF file.name = ".csv" THEN ReadTable(file)
    ELSE IF file.name \in {".xls", ".xlsx"} THEN ReadTable(file)
    ELSE EmptyDataFrame

required_cols == {"label", "value", "lower_ci", "upper_ci"}

numeric_cols == <<"value", "lower_ci", "upper_ci">>

HasRequiredCols(df) == required_cols \subseteq df.columns

\* data_df[col] = pd.to_numeric(data_df[col], errors='coerce')
CoerceColumn(df, col) ==
    [df EXCEPT !.rows =
        [i \in 1..Len(df.rows) |->
            [df.rows[i] EXCEPT !.at[col] = ToNumeric(df.rows[i].at[col])]]]

RECURSIVE CoerceColumns(_, _)
CoerceColumns(df, cols) ==
    IF Len(cols) = 0 THEN df
    ELSE CoerceColumns(CoerceColumn(df, Head(cols)), Tail(cols))

RowHasNa(row, subset) == \E i \in 1..Len(subset) : IsNaN(row.at[subset[i]])

RECURSIVE KeepRows(_, _)
KeepRows(rows, subset) ==
    IF Len(rows) = 0 THEN <<>>
    ELSE IF RowHasNa(Head(rows), subset) THEN KeepRows(Tail(rows), subset)
    ELSE <<Head(rows)>> \o KeepRows(Tail(rows), subset)

\* mutant: dropna looks at the value column only
DropNa_ValueOnly(df, subset) == [df EXCEPT !.rows = KeepRows(df.rows, <<"value">>)]

\* data_df.dropna(subset=[...], inplace=True)
DropNa(df, subset) == [df EXCEPT !.rows = KeepRows(df.rows, subset)]

\* lines 147-161: coercion, dropna, the dropped-rows warning, the verdict
CleanTable(df) ==
    LET coerced      == CoerceColumns(df, numeric_cols)
        initial_rows == Len(coerced.rows)
        cleaned      == DropNa(coerced, numeric_cols)
        removed      == initial_rows - Len(cleaned.rows)
    IN [df       |-> cleaned,
        dropped  |-> IF Len(cleaned.rows) < initial_rows THEN removed ELSE 0,
        messages |-> (IF Len(cleaned.rows) < initial_rows
                      THEN {"dropped_warning"} ELSE {})
                     \cup (IF DfEmpty(cleaned)
                           THEN {"empty_error"} ELSE {"success"})]

\* mutant: the schema error is reported but the table is not emptied
ValidateTable_KeepsTable(df) ==
    IF ~HasRequiredCols(df)
    THEN [df |-> df, dropped |-> 0, messages |-> {"schema_error"}]
    ELSE CleanTable(df)

\* lines 138-161: the required-columns check and what follows it
ValidateTable(df) ==
    IF ~HasRequiredCols(df)
    THEN [df |-> EmptyDataFrame, dropped |-> 0, messages |-> {"schema_error"}]
    ELSE CleanTable(df)

\* lines 128-167: the data loading section of one run
LoadData(upload) ==
    IF upload = <<>>
    THEN [df |-> EmptyDataFrame, dropped |-> 0, messages |-> {"upload_info"}]
    ELSE IF ~upload[1].ok
    THEN [df |-> EmptyDataFrame, dropped |-> 0, messages |-> {"process_error"}]
    ELSE ValidateTable(ReadFile(upload[1]))

(***************************************************************************)
(* generate_plotly_forest_plot                                             *)
(***************************************************************************)
\* mutant: the rows are left in input order
ReverseRows_None(rows) == rows

\* df.iloc[::-1]
ReverseRows(rows) == [i \in 1..Len(rows) |-> rows[Len(rows) + 1 - i]]

Column(rows, c) == [i \in 1..Len(rows) |-> rows[i].at[c]]

\* mutant: a negative upper extent is clamped to zero
ErrorArray_Clamped(rows) ==
    [i \in 1..Len(rows) |->
        LET d == FSub(rows[i].at["upper_ci"], rows[i].at["value"])
        IN IF FLt(d, Fin(0)) THEN Fin(0) ELSE d]

\* error_x array: df_sorted['upper_ci'] - df_sorted['value']
ErrorArray(rows) ==
    [i \in 1..Len(rows) |-> FSub(rows[i].at["upper_ci"], rows[i].at["value"])]

\* error_x arrayminus: df_sorted['value'] - df_sorted['lower_ci']
ErrorArrayMinus(rows) ==
    [i \in 1..Len(rows) |-> FSub(rows[i].at["value"], rows[i].at["lower_ci"])]

\* Series.min() / Series.max(): NaN entries are skipped, NaN when nothing is left
RECURSIVE SeriesMin(_)
SeriesMin(xs) ==
    IF Len(xs) = 0 THEN NaN
    ELSE LET rest == SeriesMin(Tail(xs))
         IN IF IsNaN(Head(xs)) THEN rest
            ELSE IF IsNaN(rest) \/ FLt(Head(xs), rest) THEN Head(xs)
            ELSE rest

RECURSIVE SeriesMax(_)
SeriesMax(xs) ==
    IF Len(xs) = 0 THEN NaN
    ELSE LET rest == SeriesMax(Tail(xs))
         IN IF IsNaN(Head(xs)) THEN rest
            ELSE IF IsNaN(rest) \/ FLt(rest, Head(xs)) THEN Head(xs)
            ELSE rest

\* mutant: the data minimum is taken over the point estimates
XMinData_FromValue(rows) == SeriesMin(Column(rows, "value"))

XMinData(rows) == SeriesMin(Column(rows, "lower_ci"))

XMaxData(rows) == SeriesMax(Column(rows, "upper_ci"))

EffectiveMinX(rows, ref) == PyMin(XMinData(rows), ref)

EffectiveMaxX(rows, ref) == PyMax(XMaxData(rows), ref)

\* axis values are kept in thousandths
Unit == 1000

\* padding_factor = 0.20, in thousandths
padding_factor == 200

\* effective_max_x + (effective_max_x - effective_min_x) * padding_factor
CalculatedXRangeMax(rows, ref) ==
    LET lo == EffectiveMinX(rows, ref)
        hi == EffectiveMaxX(rows, ref)
    IN FAdd(FMul(hi, Unit), FMul(FSub(hi, lo), padding_factor))

\* mutant: the left padding is not scaled by 0.1
CalculatedXRangeMin_FullPadding(rows, ref) ==
    LET lo == EffectiveMinX(rows, ref)
        hi == EffectiveMaxX(rows, ref)
    IN FSub(FMul(lo, Unit), FMul(FSub(hi, lo), padding_factor))

\* effective_min_x - (effective_max_x - effective_min_x) * padding_factor * 0.1
CalculatedXRangeMin(rows, ref) ==
    LET lo == EffectiveMinX(rows, ref)
        hi == EffectiveMaxX(rows, ref)
    IN FSub(FMul(lo, Unit), FDiv(FMul(FSub(hi, lo), padding_factor), 10))

\* one annotation per row of df_sorted, at the right edge of the axis
Annotations(rows, xmax) ==
    [i \in 1..Len(rows) |-> [x |-> xmax, y |-> rows[i].at["label"]]]

generate_plotly_forest_plot(df, ref) ==
    LET df_sorted == ReverseRows(df.rows)
        y_labels  == Column(df_sorted, "label")
        range_max == CalculatedXRangeMax(df_sorted, ref)
        range_min == CalculatedXRangeMin(df_sorted, ref)
    IN [x             |-> Column(df_sorted, "value"),
        y             |-> y_labels,
        array         |-> ErrorArray(df_sorted),
        arrayminus    |-> ErrorArrayMinus(df_sorted),
        vline         |-> ref,
        categoryarray |-> y_labels,
        range         |-> <<range_min, range_max>>,
        annotations   |-> Annotations(df_sorted, range_max)]

(***************************************************************************)
(* The rendering section, lines 196-234                                    *)
(***************************************************************************)
\* where the rendering or the image export of the run raises, if anywhere:
\* st.plotly_chart, the PNG fig.to_image, the SVG fig.to_image
Faults == {"none", "plotly_chart", "png", "svg"}

\* mutant: only the columns are looked at
ShouldRender_AnyColumns(df) == df.columns # {}

\* line 196
ShouldRender(df) == ~DfEmpty(df)

\* df['label'], df['value'], ... raise KeyError on a column the table does
\* not have; the except clause of line 231 reports it
BuilderRaises(df) == ~(required_cols \subseteq df.columns)

RenderChart(df, ref, fault) ==
    IF ShouldRender(df) /\ BuilderRaises(df)
    THEN [called    |-> TRUE,
          fig       |-> <<>>,
          shown     |-> FALSE,
          downloads |-> {},
          messages  |-> {"render_error"}]
    ELSE IF ShouldRender(df)
    THEN [called    |-> TRUE,
          fig       |-> <<generate_plotly_forest_plot(df, ref)>>,
          shown     |-> fault # "plotly_chart",
          downloads |-> IF fault = "none" THEN {"png", "svg"}
                        ELSE IF fault = "svg" THEN {"png"}
                        ELSE {},
          messages  |-> IF fault = "none" THEN {} ELSE {"render_error"}]
    ELSE [called    |-> FALSE,
          fig       |-> <<>>,
          shown     |-> FALSE,
          downloads |-> {},
          messages  |-> {"no_data_info"}]

(***************************************************************************)
(* Inputs                                                                  *)
(***************************************************************************)
\* tables of at most n rows drawn from a pool of rows
Tables(pool, n) == UNION {[1..k -> pool] : k \in 0..n}

Missing == <<>>

LabelA == <<"A">>

LabelB == <<"B">>

TextCell == <<"x">>

InfCell == <<"i", "n", "f">>

NegInfCell == <<"-", "i", "n", "f">>

\* the extensions the uploader lets through (line 124)
Exts == {".csv", ".xls", ".xlsx"}

CanonicalHeader == <<"label", "value", "lower_ci", "upper_ci">>

Headers ==
    {CanonicalHeader,
     <<"value", "label", "upper_ci", "lower_ci">>,
     <<"Label", "value", "lower_ci", "upper_ci">>,
     <<"label", "Value", "lower_ci", "upper_ci">>,
     <<"label", "value", "lower", "upper_ci">>,
     <<"label", "value", "lower_ci", "upper">>}

GoodRowA == <<LabelA, FormatInt(1), FormatInt(-1), FormatInt(2)>>

GoodRowB == <<LabelB, FormatInt(2), FormatInt(1), FormatInt(10)>>

\* rows in file order of the cells: well-formed rows, a row without label,
\* and rows with one cell that is text, empty or infinite
RawRows ==
    {GoodRowA, GoodRowB, [GoodRowA EXCEPT ![1] = Missing]}
    \cup {[GoodRowA EXCEPT ![p] = b] : p \in 2..4, b \in {TextCell, Missing, InfCell}}
    \cup {[GoodRowB EXCEPT ![3] = NegInfCell]}

CorruptFile(e) == [name |-> e, ok |-> FALSE, header |-> <<>>, rows |-> <<>>]

FilesOf(exts, headers, pool) ==
    {[name |-> e, ok |-> TRUE, header |-> h, rows |-> t] :
        e \in exts, h \in headers, t \in Tables(pool, MaxRows)}
    \cup {CorruptFile(e) : e \in exts}

RunFiles == FilesOf(Exts, Headers, RawRows)

\* all-numeric files, for the chart builder
Vals == {0, MaxVal}

NumericRows ==
    {<<l, FormatInt(v), FormatInt(lo), FormatInt(hi)>> :
        l \in {LabelA, LabelB}, v \in Vals, lo \in Vals, hi \in Vals}

NumericFiles ==
    {[name |-> ".csv", ok |-> TRUE, header |-> CanonicalHeader, rows |-> t] :
        t \in Tables(NumericRows, MaxRows)}

Refs == {Fin(0 - 1), Fin(0), Fin(1), Fin(MaxVal + 1)}

\* files of a session
SessionRows ==
    {GoodRowA, [GoodRowA EXCEPT ![2] = TextCell], [GoodRowB EXCEPT ![4] = InfCell]}

SessionFiles ==
    FilesOf({".csv"}, {CanonicalHeader, <<"label", "Value", "lower_ci", "upper_ci">>},
            SessionRows)

SessionRefs == {Fin(0), Fin(1)}

(***************************************************************************)
(* One run of the script                                                   *)
(***************************************************************************)
\* mutant: a failed load keeps the dataset of the previous run
Rerun_KeepsOnFailure(upload, ref, fault) ==
    LET load   == LoadData(upload)
        kept   == IF upload # <<>> /\ DfEmpty(load.df) THEN data_df ELSE load.df
        render == RenderChart(kept, ref, fault)
    IN /\ data_df' = kept
       /\ dropped' = load.dropped
       /\ messages' = load.messages \cup render.messages
       /\ builder_called' = render.called
       /\ fig' = render.fig
       /\ chart_shown' = render.shown
       /\ downloads' = render.downloads
       /\ pc' = "done"

Rerun(upload, ref, fault) ==
    LET load   == LoadData(upload)
        render == RenderChart(load.df, ref, fault)
    IN /\ data_df' = load.df
       /\ dropped' = load.dropped
       /\ messages' = load.messages \cup render.messages
       /\ builder_called' = render.called
       /\ fig' = render.fig
       /\ chart_shown' = render.shown
       /\ downloads' = render.downloads
       /\ pc' = "done"

NotRunYet ==
    /\ data_df = EmptyDataFrame
    /\ dropped = 0
    /\ messages = {}
    /\ builder_called = FALSE
    /\ fig = <<>>
    /\ chart_shown = FALSE
    /\ downloads = {}
    /\ pc = "start"

\* the script runs once on the widgets as they are
RunScript ==
    /\ pc = "start"
    /\ \E fault \in Faults : Rerun(uploaded_file, ref_line_value, fault)
    /\ UNCHANGED <<uploaded_file, ref_line_value>>

\* the user uploads (or replaces) a file: the script is re-run
Upload ==
    /\ pc = "done"
    /\ \E f \in SessionFiles, fault \in Faults :
          /\ uploaded_file' = <<f>>
          /\ Rerun(<<f>>, ref_line_value, fault)
    /\ UNCHANGED ref_line_value

\* the user removes the file from the uploader: the script is re-run
RemoveUpload ==
    /\ pc = "done"
    /\ uploaded_file # <<>>
    /\ uploaded_file' = <<>>
    /\ \E fault \in Faults : Rerun(<<>>, ref_line_value, fault)
    /\ UNCHANGED ref_line_value

\* the user edits the reference-line value: the script is re-run
SetReference ==
    /\ pc = "done"
    /\ \E r \in SessionRefs \ {ref_line_value}, fault \in Faults :
          /\ ref_line_value' = r
          /\ Rerun(uploaded_file, r, fault)
    /\ UNCHANGED uploaded_file

\* a session: the page is opened with no file and the default reference 0.0
Init ==
    /\ uploaded_file = <<>>
    /\ ref_line_value = Fin(0)
    /\ data_df = EmptyDataFrame
    /\ dropped = 0
    /\ messages = {"upload_info", "no_data_info"}
    /\ builder_called = FALSE
    /\ fig = <<>>
    /\ chart_shown = FALSE
    /\ downloads = {}
    /\ pc = "done"

Next == Upload \/ RemoveUpload \/ SetReference

Spec == Init /\ [][Next]_vars

\* one run of the script on any uploaded file
InitRun ==
    /\ uploaded_file \in {<<f>> : f \in RunFiles} \cup {<<>>}
    /\ ref_line_value = Fin(0)
    /\ NotRunYet

NextRun == RunScript

SpecRun == InitRun /\ [][NextRun]_vars

\* one run of the script on an all-numeric file and any reference value
InitBuild ==
    /\ uploaded_file \in {<<f>> : f \in NumericFiles}
    /\ ref_line_value \in Refs
    /\ NotRunYet

SpecBuild == InitBuild /\ [][NextRun]_vars

(***************************************************************************)
(* The uploaded table, as the claims speak of it                           *)
(***************************************************************************)
TheFile == uploaded_file[1]

Uploaded == uploaded_file # <<>> /\ TheFile.ok

NumRows == Len(TheFile.rows)

HeaderHas(c) == \E p \in 1..Len(TheFile.header) : TheFile.header[p] = c

AllColumnsPresent ==
    HeaderHas("label") /\ HeaderHas("value") /\ HeaderHas("lower_ci") /\ HeaderHas("upper_ci")

\* the cell of input row i (1-based) under column c
RawCell(i, c) ==
    TheFile.rows[i][CHOOSE p \in 1..Len(TheFile.header) : TheFile.header[p] = c]

\* input row i has a cell that is not a number in one of the numeric columns
BadRow(i) ==
    \/ IsNaN(ToNumeric(RawCell(i, "value")))
    \/ IsNaN(ToNumeric(RawCell(i, "lower_ci")))
    \/ IsNaN(ToNumeric(RawCell(i, "upper_ci")))

BadRowSet == {i \in 1..NumRows : BadRow(i)}

NoChart == ~builder_called /\ fig = <<>> /\ ~chart_shown /\ downloads = {}

(***************************************************************************)
(* C1: a table that lacks one of label, value, lower_ci, upper_ci (exact   *)
(* names) ends in the schema error and leaves the empty dataset, whatever  *)
(* its rows and other columns are.                                         *)
(***************************************************************************)
C1_MissingColumnIsSchemaError ==
    (pc = "done" /\ Uploaded /\ ~AllColumnsPresent)
        => /\ "schema_error" \in messages
           /\ "success" \notin messages
           /\ data_df.columns = {}
           /\ Len(data_df.rows) = 0

C1_Witness ==
    /\ pc = "done" /\ Uploaded
    /\ ~HeaderHas("lower_ci") /\ HeaderHas("value")
    /\ NumRows = 2
    /\ "schema_error" \in messages
    /\ data_df = EmptyDataFrame

(***************************************************************************)
(* C2: when all four columns are present, exactly the rows with a          *)
(* non-numeric cell in value, lower_ci or upper_ci are dropped, the        *)
(* reported count is the number of such rows, and the surviving rows keep  *)
(* their field values and their relative input order.                      *)
(***************************************************************************)
C2_DropsExactlyNonNumericRows ==
    (pc = "done" /\ Uploaded /\ AllColumnsPresent)
        => /\ {r.idx + 1 : r \in Range(data_df.rows)} = (1..NumRows) \ BadRowSet
           /\ Len(data_df.rows) = NumRows - Cardinality(BadRowSet)
           /\ dropped = Cardinality(BadRowSet)
           /\ ("dropped_warning" \in messages) = (BadRowSet # {})
           /\ \A j \in 1..Len(data_df.rows), k \in 1..Len(data_df.rows) :
                 j < k => data_df.rows[j].idx < data_df.rows[k].idx
           /\ \A j \in 1..Len(data_df.rows) :
                 LET r == data_df.rows[j]
                 IN /\ r.at["label"] = RawCell(r.idx + 1, "label")
                    /\ r.at["value"] = ToNumeric(RawCell(r.idx + 1, "value"))
                    /\ r.at["lower_ci"] = ToNumeric(RawCell(r.idx + 1, "lower_ci"))
                    /\ r.at["upper_ci"] = ToNumeric(RawCell(r.idx + 1, "upper_ci"))

C2_Witness ==
    /\ pc = "done" /\ Uploaded /\ AllColumnsPresent
    /\ NumRows = 2 /\ BadRowSet = {1}
    /\ dropped = 1
    /\ Len(data_df.rows) = 1
    /\ data_df.rows[1].idx = 1
    /\ data_df.rows[1].at["upper_ci"] = Fin(10)

(***************************************************************************)
(* C3: after validation every record has a label and its value, lower_ci   *)
(* and upper_ci are finite numbers: no record with a missing label and no  *)
(* record with an infinite field survives.                                 *)
(***************************************************************************)
C3_ValidatedRecordsComplete ==
    pc = "done"
        => \A j \in 1..Len(data_df.rows) :
              LET r == data_df.rows[j]
              IN /\ r.at["label"] # Missing
                 /\ IsFinite(r.at["value"])
                 /\ IsFinite(r.at["lower_ci"])
                 /\ IsFinite(r.at["upper_ci"])

(***************************************************************************)
(* C4: the chart builder is invoked only on a non-empty dataset; with zero *)
(* input records, with every record dropped by coercion, and on a schema   *)
(* failure the builder is not called and no chart and no export is made.   *)
(***************************************************************************)
C4_BuilderOnlyOnData ==
    pc = "done"
        => /\ builder_called => Len(data_df.rows) > 0
           /\ (Uploaded /\ NumRows = 0) => NoChart
           /\ (Uploaded /\ AllColumnsPresent /\ BadRowSet = 1..NumRows) => NoChart
           /\ (Uploaded /\ ~AllColumnsPresent) => NoChart

C4_Witness ==
    /\ pc = "done" /\ Uploaded /\ AllColumnsPresent
    /\ NumRows = 2 /\ BadRowSet = {1, 2}
    /\ "empty_error" \in messages
    /\ NoChart

(***************************************************************************)
(* C5: after any sequence of uploads the active dataset is the validation  *)
(* result of the most recent upload and holds no record of an earlier one; *)
(* when the most recent upload fails (parse error, schema error, no valid  *)
(* rows) the session has no data and no chart, and it accepts further      *)
(* uploads.                                                                *)
(***************************************************************************)
LastUploadFails ==
    /\ uploaded_file # <<>>
    /\ \/ ~TheFile.ok
       \/ ~AllColumnsPresent
       \/ BadRowSet = 1..NumRows

C5_DatasetIsLatestUpload ==
    /\ pc = "done"
    /\ uploaded_file = <<>> => (Len(data_df.rows) = 0 /\ NoChart)
    /\ LastUploadFails => (Len(data_df.rows) = 0 /\ NoChart)
    /\ (uploaded_file # <<>> /\ ~LastUploadFails)
          => /\ {r.idx + 1 : r \in Range(data_df.rows)} = (1..NumRows) \ BadRowSet
             /\ Len(data_df.rows) = NumRows - Cardinality(BadRowSet)
             /\ \A j \in 1..Len(data_df.rows) :
                   LET r == data_df.rows[j]
                   IN /\ r.at["label"] = RawCell(r.idx + 1, "label")
                      /\ r.at["value"] = ToNumeric(RawCell(r.idx + 1, "value"))
                      /\ r.at["lower_ci"] = ToNumeric(RawCell(r.idx + 1, "lower_ci"))
                      /\ r.at["upper_ci"] = ToNumeric(RawCell(r.idx + 1, "upper_ci"))
             /\ builder_called
    /\ ENABLED Upload

C5_Witness ==
    /\ pc = "done"
    /\ uploaded_file # <<>> /\ TheFile.ok /\ ~AllColumnsPresent /\ NumRows = 2
    /\ ref_line_value = Fin(1)
    /\ data_df = EmptyDataFrame
    /\ NoChart

(***************************************************************************)
(* The figure of a run that built one                                      *)
(***************************************************************************)
Built == pc = "done" /\ fig # <<>>

TheFig == fig[1]

N == Len(data_df.rows)

Rec(i) == data_df.rows[i].at

Lowers == {Rec(i)["lower_ci"].n : i \in 1..N}

Uppers == {Rec(i)["upper_ci"].n : i \in 1..N}

SetMin(S) == CHOOSE m \in S : \A x \in S : m <= x

SetMax(S) == CHOOSE m \in S : \A x \in S : x <= m

EffMin == SetMin(Lowers \cup {ref_line_value.n})

EffMax == SetMax(Uppers \cup {ref_line_value.n})

C7_AxisRange ==
    (pc = "done" /\ N > 0)
        => /\ Built
           /\ TheFig.range[1] = Fin(1000 * EffMin - 20 * (EffMax - EffMin))
           /\ TheFig.range[2] = Fin(1000 * EffMax + 200 * (EffMax - EffMin))

C7_Witness ==
    /\ Built
    /\ ref_line_value = Fin(0 - 1)
    /\ Lowers = {0, MaxVal} /\ Uppers = {MaxVal}
    /\ TheFig.range = <<Fin(0 - 1000 - 20 * (MaxVal + 1)), Fin(1000 * MaxVal + 200 * (MaxVal + 1))>>

(***************************************************************************)
(* C8: every record gives exactly one marker at x = value, y = label       *)
(* (records sharing a label too), with upper extent upper_ci - value and   *)
(* lower extent value - lower_ci, passed through unclamped: a record with  *)
(* value outside its interval is neither rejected nor corrected.           *)
(***************************************************************************)
C8_MarkersAndExtents ==
    (pc = "done" /\ N > 0)
        => /\ Built
           /\ Len(TheFig.x) = N /\ Len(TheFig.y) = N
           /\ Len(TheFig.array) = N /\ Len(TheFig.arrayminus) = N
           /\ \A i \in 1..N :
                 LET m == N + 1 - i
                 IN /\ TheFig.x[m] = Rec(i)["value"]
                    /\ TheFig.y[m] = Rec(i)["label"]
                    /\ TheFig.array[m] = Fin(Rec(i)["upper_ci"].n - Rec(i)["value"].n)
                    /\ TheFig.arrayminus[m] = Fin(Rec(i)["value"].n - Rec(i)["lower_ci"].n)

C8_Witness ==
    /\ Built /\ N = 2
    /\ Rec(1)["label"] = Rec(2)["label"]
    /\ Rec(1)["value"] = Fin(MaxVal) /\ Rec(1)["upper_ci"] = Fin(0)
    /\ Rec(2)["value"] = Fin(0) /\ Rec(2)["lower_ci"] = Fin(MaxVal)
    /\ TheFig.array[2] = Fin(0 - MaxVal)
    /\ TheFig.arrayminus[1] = Fin(0 - MaxVal)

(***************************************************************************)
(* C9: when the builder is given a table with a non-finite value, lower_ci *)
(* or upper_ci, the build fails, the failure is reported, and no chart     *)
(* with that value is shown or exported.                                   *)
(***************************************************************************)
HasNonFinite ==
    \E i \in 1..N :
        ~IsFinite(Rec(i)["value"]) \/ ~IsFinite(Rec(i)["lower_ci"])
            \/ ~IsFinite(Rec(i)["upper_ci"])

C9_NonFiniteBuildFails ==
    (pc = "done" /\ builder_called /\ HasNonFinite)
        => ("render_error" \in messages /\ ~chart_shown /\ downloads = {})

(***************************************************************************)
(* C10: when every record has lower_ci <= value <= upper_ci, the range has *)
(* range_min <= range_max and contains the reference value and every       *)
(* value, lower_ci and upper_ci; range_min = range_max only when all CI    *)
(* bounds and the reference value are equal.                               *)
(***************************************************************************)
Ordered ==
    \A i \in 1..N :
        Rec(i)["lower_ci"].n <= Rec(i)["value"].n /\ Rec(i)["value"].n <= Rec(i)["upper_ci"].n

InRange(v) == TheFig.range[1].n <= 1000 * v /\ 1000 * v <= TheFig.range[2].n

C10_RangeContainsData ==
    (pc = "done" /\ N > 0 /\ Ordered)
        => /\ Built
           /\ IsFinite(TheFig.range[1]) /\ IsFinite(TheFig.range[2])
           /\ TheFig.range[1].n <= TheFig.range[2].n
           /\ InRange(ref_line_value.n)
           /\ \A i \in 1..N :
                 InRange(Rec(i)["value"].n) /\ InRange(Rec(i)["lower_ci"].n)
                     /\ InRange(Rec(i)["upper_ci"].n)
           /\ TheFig.range[1] = TheFig.range[2]
                 => \A i \in 1..N :
                       /\ Rec(i)["lower_ci"] = ref_line_value
                       /\ Rec(i)["upper_ci"] = ref_line_value

C10_Witness ==
    /\ Built /\ N = 2 /\ Ordered
    /\ Rec(1)["lower_ci"] = Fin(0) /\ Rec(1)["upper_ci"] = Fin(MaxVal)
    /\ Rec(2)["lower_ci"] = Fin(MaxVal) /\ Rec(2)["value"] = Fin(MaxVal)
    /\ ref_line_value = Fin(MaxVal + 1)
    /\ TheFig.range[1].n < 0
    /\ TheFig.range[2].n > 1000 * (MaxVal + 1)

====
